---- MODULE Spec2Model ----
(***************************************************************************)
(* Subscription management of OpenTAXII:                                   *)
(* opentaxii/taxii/services/handlers/subscription_request_handlers.py      *)
(*                                                                         *)
(* The state is the subscription store of the service together with the   *)
(* last request that was handled, its outcome, the store as it was before  *)
(* that request and the service calls the handler made for it.             *)
(* For requests handled concurrently, workers holds each handler's         *)
(* position, request and looked-up subscription, and commits the order in  *)
(* which their update_subscription calls reached the store.                *)
(* Python's None / empty string (both falsy) is the empty string NoId for  *)
(* a subscription id, the record NoSubscription for an entity, the record  *)
(* NoCollection for a collection and the empty sequence for an optional    *)
(* PollRequestParametersEntity.                                            *)
(***************************************************************************)
EXTENDS Integers, Sequences, FiniteSets, TLC

VARIABLES store, req, resp, prev, calls, issued, workers, commits

vars == <<store, req, resp, prev, calls, issued, workers, commits>>

\* Largest number of subscriptions the store is allowed to hold.
MaxSubs == 2

(***************************************************************************)
(* libtaxii constants                                                      *)
(***************************************************************************)
ACT_SUBSCRIBE == "SUBSCRIBE"
ACT_UNSUBSCRIBE == "UNSUBSCRIBE"
ACT_PAUSE == "PAUSE"
ACT_RESUME == "RESUME"
ACT_STATUS == "STATUS"

ACT_TYPES_11 == {ACT_SUBSCRIBE, ACT_UNSUBSCRIBE, ACT_PAUSE, ACT_RESUME, ACT_STATUS}

ACT_TYPES_10 == {ACT_SUBSCRIBE, ACT_UNSUBSCRIBE, ACT_STATUS}

ST_BAD_MESSAGE == "BAD_MESSAGE"
ST_NOT_FOUND == "NOT_FOUND"
ST_UNSUPPORTED_CONTENT_BINDING == "UNSUPPORTED_CONTENT_BINDING"
SD_ITEM == "ITEM"
SD_SUPPORTED_CONTENT == "SUPPORTED_CONTENT"

\* SubscriptionEntity.ACTIVE / PAUSED / UNSUBSCRIBED
ACTIVE == "ACTIVE"
PAUSED == "PAUSED"
UNSUBSCRIBED == "UNSUBSCRIBED"

RT_FULL == "FULL"
RT_COUNT_ONLY == "COUNT_ONLY"
RT_NONE == "NONE"

(***************************************************************************)
(* Entities and collaborators                                              *)
(***************************************************************************)
NoId == ""

\* An id no store ever assigns (the tests' INVALID_ID).
INVALID_ID == "RANDOM-WRONG-SUBSCRIPTION"

\* The ids the store assigns, in order of creation.
IdPool == <<"s1", "s2", "s3", "s4", "s5", "s6">>

\* ContentBindingEntity
ContentBindingEntity(binding, subtypes) == [binding |-> binding, subtypes |-> subtypes]

\* tm11.ContentBinding, the wire form
ContentBinding(binding_id, subtype_ids) == [binding_id |-> binding_id, subtype_ids |-> subtype_ids]

\* The collections of the service: X supports A and B, Y supports C.
Collections ==
    { [id |-> 1, name |-> "X",
       supported_content |-> <<ContentBindingEntity("A", <<>>), ContentBindingEntity("B", <<>>)>>],
      [id |-> 2, name |-> "Y",
       supported_content |-> <<ContentBindingEntity("C", <<>>)>>] }

NoCollection == [id |-> 0, name |-> "", supported_content |-> <<>>]

\* Collection names a request may carry; Z names no collection.
CollectionNames == {"X", "Y", "Z"}

NoSubscription ==
    [subscription_id |-> NoId, collection_id |-> 0, status |-> "NONE", params |-> <<>>]

\* PollRequestParametersEntity(response_type, content_bindings)
PollRequestParametersEntity(response_type, content_bindings) ==
    [response_type |-> response_type, content_bindings |-> content_bindings]

\* SubscriptionEntity(collection_id, subscription_id, status, poll_request_params)
SubscriptionEntity(collection_id, subscription_id, status, params) ==
    [subscription_id |-> subscription_id, collection_id |-> collection_id,
     status |-> status, params |-> params]

\* parse_content_bindings(params.content_bindings, version=11):
\* wire content bindings to ContentBindingEntity
parse_content_bindings(bindings) ==
    [i \in 1..Len(bindings) |->
        ContentBindingEntity(bindings[i].binding_id, bindings[i].subtype_ids)]

\* the converse conversion, entity to wire form
content_binding_entities_to_content_bindings(entities) ==
    [i \in 1..Len(entities) |->
        ContentBinding(entities[i].binding, entities[i].subtypes)]

\* collection.get_matching_bindings(requested_bindings): the collection's
\* supported bindings that the request names, in the collection's order
get_matching_bindings(collection, requested_bindings) ==
    SelectSeq(collection.supported_content,
              LAMBDA s : \E i \in 1..Len(requested_bindings) :
                            requested_bindings[i].binding = s.binding)

\* collection.get_supported_content(version=11): the full supported list, wire form
get_supported_content(collection) ==
    content_binding_entities_to_content_bindings(collection.supported_content)

\* service.get_collection(name): the collection of that name, or None
get_collection(name) ==
    IF \E c \in Collections : c.name = name
    THEN CHOOSE c \in Collections : c.name = name
    ELSE NoCollection

\* service.get_subscription(subscription_id): the stored entity, or None
get_subscription(st, subscription_id) ==
    IF \E i \in 1..Len(st) : st[i].subscription_id = subscription_id
    THEN st[CHOOSE i \in 1..Len(st) : st[i].subscription_id = subscription_id]
    ELSE NoSubscription

\* service.get_subscriptions(): every subscription, in the store's order
get_subscriptions(st) == st

\* service.create_subscription(subscription): the store assigns the id
create_subscription(st, subscription) ==
    LET created == [subscription EXCEPT !.subscription_id = IdPool[Len(st) + 1]]
    IN  [store |-> Append(st, created), result |-> created]

\* service.update_subscription(subscription, new_status): sets the status
\* and persists the entity
update_subscription(st, subscription, new_status) ==
    LET updated == [subscription EXCEPT !.status = new_status]
    IN  [store |-> [i \in 1..Len(st) |->
                       IF st[i].subscription_id = subscription.subscription_id
                       THEN updated ELSE st[i]],
         result |-> updated]

\* service.get_polling_services(collection), as the poll instances of a
\* subscription instance: one per polling service and protocol binding
get_polling_services(collection) ==
    IF collection.id = 1 THEN <<"poll-A/http", "poll-A/https">> ELSE <<"poll-A/http">>

(***************************************************************************)
(* Outcomes                                                                *)
(***************************************************************************)
\* StatusMessageException(status_type, message, in_response_to, status_details)
StatusMessageException(status_type, message, in_response_to, status_details) ==
    [kind |-> "StatusMessageException", status_type |-> status_type,
     message |-> message, in_response_to |-> in_response_to,
     status_details |-> status_details]

NoError == [kind |-> "None"]

\* What an action function hands back: the store after its calls, the
\* result as a list, the calls it made and the exception it raised, if any.
ActionResult(st, results, made, raised) ==
    [store |-> st, results |-> results, calls |-> made, raised |-> raised]

(***************************************************************************)
(* The action functions (ACTIONS)                                          *)
(***************************************************************************)
\* action_subscribe that creates the subscription before it negotiates
action_subscribe_create_first(request, st, collection, version) ==
    LET bindings == IF version = 11
                    THEN request.subscription_parameters.content_bindings
                    ELSE <<>>
        requested_bindings == parse_content_bindings(bindings)
        supported_contents ==
            IF version = 11 /\ Len(bindings) # 0
            THEN get_matching_bindings(collection, requested_bindings)
            ELSE <<>>
        response_type == IF version = 11
                         THEN request.subscription_parameters.response_type
                         ELSE RT_NONE
        poll_request_params == PollRequestParametersEntity(response_type, supported_contents)
        subscription == SubscriptionEntity(collection.id, NoId, ACTIVE, <<poll_request_params>>)
        created == create_subscription(st, subscription)
    IN  IF version = 11 /\ Len(bindings) # 0
           /\ Len(requested_bindings) # 0 /\ Len(supported_contents) = 0
        THEN ActionResult(created.store, <<>>, <<"create_subscription">>,
                 StatusMessageException(ST_UNSUPPORTED_CONTENT_BINDING, "",
                     request.message_id,
                     SD_SUPPORTED_CONTENT :> get_supported_content(collection)))
        ELSE ActionResult(created.store, <<created.result>>,
                          <<"create_subscription">>, NoError)

\* action_subscribe that creates the subscription without its collection_id
action_subscribe_without_collection(request, st, collection, version) ==
    LET bindings == IF version = 11
                    THEN request.subscription_parameters.content_bindings
                    ELSE <<>>
        requested_bindings == parse_content_bindings(bindings)
        supported_contents ==
            IF version = 11 /\ Len(bindings) # 0
            THEN get_matching_bindings(collection, requested_bindings)
            ELSE <<>>
        response_type == IF version = 11
                         THEN request.subscription_parameters.response_type
                         ELSE RT_NONE
        poll_request_params == PollRequestParametersEntity(response_type, supported_contents)
        subscription == SubscriptionEntity(0, NoId, ACTIVE, <<poll_request_params>>)
        created == create_subscription(st, subscription)
    IN  IF version = 11 /\ Len(bindings) # 0
           /\ Len(requested_bindings) # 0 /\ Len(supported_contents) = 0
        THEN ActionResult(st, <<>>, <<>>,
                 StatusMessageException(ST_UNSUPPORTED_CONTENT_BINDING, "",
                     request.message_id,
                     SD_SUPPORTED_CONTENT :> get_supported_content(collection)))
        ELSE ActionResult(created.store, <<created.result>>,
                          <<"create_subscription">>, NoError)

\* action_subscribe that accepts the requested bindings as they are,
\* without matching them against the collection
action_subscribe_without_matching(request, st, collection, version) ==
    LET bindings == IF version = 11
                    THEN request.subscription_parameters.content_bindings
                    ELSE <<>>
        supported_contents == parse_content_bindings(bindings)
        response_type == IF version = 11
                         THEN request.subscription_parameters.response_type
                         ELSE RT_NONE
        poll_request_params == PollRequestParametersEntity(response_type, supported_contents)
        subscription == SubscriptionEntity(collection.id, NoId, ACTIVE, <<poll_request_params>>)
        created == create_subscription(st, subscription)
    IN  ActionResult(created.store, <<created.result>>,
                     <<"create_subscription">>, NoError)

action_subscribe(request, st, collection, version) ==
    LET bindings == IF version = 11
                    THEN request.subscription_parameters.content_bindings
                    ELSE <<>>
        requested_bindings == parse_content_bindings(bindings)
        supported_contents ==
            IF version = 11 /\ Len(bindings) # 0
            THEN get_matching_bindings(collection, requested_bindings)
            ELSE <<>>
        response_type == IF version = 11
                         THEN request.subscription_parameters.response_type
                         ELSE RT_NONE
        poll_request_params == PollRequestParametersEntity(response_type, supported_contents)
        subscription == SubscriptionEntity(collection.id, NoId, ACTIVE, <<poll_request_params>>)
        created == create_subscription(st, subscription)
    IN  IF version = 11 /\ Len(bindings) # 0
           /\ Len(requested_bindings) # 0 /\ Len(supported_contents) = 0
        THEN ActionResult(st, <<>>, <<>>,
                 StatusMessageException(ST_UNSUPPORTED_CONTENT_BINDING, "",
                     request.message_id,
                     SD_SUPPORTED_CONTENT :> get_supported_content(collection)))
        ELSE ActionResult(created.store, <<created.result>>,
                          <<"create_subscription">>, NoError)

\* action_unsubscribe that persists an entity rebuilt from the id alone
action_unsubscribe_rebuilt(request, st, subscription) ==
    IF subscription # NoSubscription
    THEN LET updated == update_subscription(st,
                 SubscriptionEntity(0, request.subscription_id, ACTIVE, <<>>),
                 UNSUBSCRIBED)
         IN  ActionResult(updated.store, <<updated.result>>,
                          <<"update_subscription">>, NoError)
    ELSE ActionResult(st,
             <<SubscriptionEntity(0, request.subscription_id, UNSUBSCRIBED, <<>>)>>,
             <<>>, NoError)

\* action_unsubscribe that persists the acknowledgement of an unknown id
action_unsubscribe_persisting(request, st, subscription) ==
    IF subscription # NoSubscription
    THEN LET updated == update_subscription(st, subscription, UNSUBSCRIBED)
         IN  ActionResult(updated.store, <<updated.result>>,
                          <<"update_subscription">>, NoError)
    ELSE LET synthetic == SubscriptionEntity(0, request.subscription_id, UNSUBSCRIBED, <<>>)
         IN  ActionResult(Append(st, synthetic), <<synthetic>>,
                          <<"create_subscription">>, NoError)

action_unsubscribe(request, st, subscription) ==
    IF subscription # NoSubscription
    THEN LET updated == update_subscription(st, subscription, UNSUBSCRIBED)
         IN  ActionResult(updated.store, <<updated.result>>,
                          <<"update_subscription">>, NoError)
    ELSE ActionResult(st,
             <<SubscriptionEntity(0, request.subscription_id, UNSUBSCRIBED, <<>>)>>,
             <<>>, NoError)

\* action_status that leaves the UNSUBSCRIBED subscriptions out of the list
action_status_without_unsubscribed(st, subscription) ==
    IF subscription # NoSubscription
    THEN ActionResult(st, <<subscription>>, <<>>, NoError)
    ELSE ActionResult(st,
             SelectSeq(get_subscriptions(st), LAMBDA x : x.status # UNSUBSCRIBED),
             <<"get_subscriptions">>, NoError)

\* action_status that lists one subscription at most
action_status_first_only(st, subscription) ==
    IF subscription # NoSubscription
    THEN ActionResult(st, <<subscription>>, <<>>, NoError)
    ELSE ActionResult(st,
             IF get_subscriptions(st) = <<>> THEN <<>> ELSE <<get_subscriptions(st)[1]>>,
             <<"get_subscriptions">>, NoError)

\* action_status that lists every subscription, whatever was resolved
action_status_all(st, subscription) ==
    ActionResult(st, get_subscriptions(st), <<"get_subscriptions">>, NoError)

action_status(st, subscription) ==
    IF subscription # NoSubscription
    THEN ActionResult(st, <<subscription>>, <<>>, NoError)
    ELSE ActionResult(st, get_subscriptions(st), <<"get_subscriptions">>, NoError)

\* action_pause that resumes a PAUSED subscription
action_pause_toggle(st, subscription) ==
    LET updated == update_subscription(st, subscription,
                       IF subscription.status = PAUSED THEN ACTIVE ELSE PAUSED)
    IN  ActionResult(updated.store, <<updated.result>>,
                     <<"update_subscription">>, NoError)

\* action_pause without the early return for a PAUSED subscription
action_pause_always_writes(st, subscription) ==
    LET updated == update_subscription(st, subscription, PAUSED)
    IN  ActionResult(updated.store, <<updated.result>>,
                     <<"update_subscription">>, NoError)

\* action_pause that sets the status on the entity and does not persist it
action_pause_not_persisted(st, subscription) ==
    IF subscription.status = PAUSED
    THEN ActionResult(st, <<subscription>>, <<>>, NoError)
    ELSE ActionResult(st, <<[subscription EXCEPT !.status = PAUSED]>>, <<>>, NoError)

action_pause(st, subscription) ==
    IF subscription.status = PAUSED
    THEN ActionResult(st, <<subscription>>, <<>>, NoError)
    ELSE LET updated == update_subscription(st, subscription, PAUSED)
         IN  ActionResult(updated.store, <<updated.result>>,
                          <<"update_subscription">>, NoError)

\* action_resume without the early return for a subscription that is not PAUSED
action_resume_always_writes(st, subscription) ==
    LET updated == update_subscription(st, subscription, ACTIVE)
    IN  ActionResult(updated.store, <<updated.result>>,
                     <<"update_subscription">>, NoError)

action_resume(st, subscription) ==
    IF subscription.status # PAUSED
    THEN ActionResult(st, <<subscription>>, <<>>, NoError)
    ELSE LET updated == update_subscription(st, subscription, ACTIVE)
         IN  ActionResult(updated.store, <<updated.result>>,
                          <<"update_subscription">>, NoError)

\* ACTIONS[request.action](service, request, collection, subscription, version)
ACTIONS_table(request, st, collection, subscription, version) ==
    CASE request.action = ACT_SUBSCRIBE -> action_subscribe(request, st, collection, version)
      [] request.action = ACT_UNSUBSCRIBE -> action_unsubscribe(request, st, subscription)
      [] request.action = ACT_PAUSE -> action_pause(st, subscription)
      [] request.action = ACT_RESUME -> action_resume(st, subscription)
      [] request.action = ACT_STATUS -> action_status(st, subscription)

\* retrieve_collection: the exception it raises for an unknown name, if any
retrieve_collection(collection_name, in_response_to) ==
    IF get_collection(collection_name) = NoCollection
    THEN StatusMessageException(ST_NOT_FOUND,
             "The collection you requested was not found",
             in_response_to, SD_ITEM :> collection_name)
    ELSE NoError

\* The handlers without the comparison of the collection ids
collection_mismatch_never(subscription, collection) == FALSE

\* The test both handlers make after resolving the collection:
\* subscription and subscription.collection_id != collection.id
collection_mismatch(subscription, collection) ==
    subscription # NoSubscription /\ subscription.collection_id # collection.id

\* subscription_to_subscription_instance(subscription, polling_services,
\* version, subscription_parameters): version 11 carries the status and,
\* when given, the parameters; version 10 carries neither.
subscription_to_subscription_instance(s, polling_services, version, subscription_parameters) ==
    IF version = 11
    THEN IF subscription_parameters = <<>>
         THEN [subscription_id |-> s.subscription_id, status |-> s.status,
               poll_instances |-> polling_services]
         ELSE [subscription_id |-> s.subscription_id, status |-> s.status,
               subscription_parameters |->
                   [response_type |-> subscription_parameters[1].response_type,
                    content_bindings |->
                        content_binding_entities_to_content_bindings(
                            subscription_parameters[1].content_bindings)],
               poll_instances |-> polling_services]
    ELSE [subscription_id |-> s.subscription_id, poll_instances |-> polling_services]

\* What handle_message ends with: the store, the response or the
\* exception, and the service calls made on the way.
Outcome(st, response, made) == [store |-> st, resp |-> response, calls |-> made]

(***************************************************************************)
(* SubscriptionRequest11Handler                                            *)
(***************************************************************************)
\* validate_request without the NOT_FOUND for an absent subscription
validate_request_11_without_lookup(request, subscription) ==
    LET action == request.action
        error_message ==
            IF action \notin ACT_TYPES_11
            THEN "The specified action was invalid"
            ELSE IF action \in {ACT_UNSUBSCRIBE, ACT_PAUSE, ACT_RESUME}
                    /\ request.subscription_id = NoId
                 THEN "Action requires a subscription id"
                 ELSE ""
    IN  IF error_message # ""
        THEN StatusMessageException(ST_BAD_MESSAGE, error_message,
                                    request.message_id, <<>>)
        ELSE NoError

\* validate_request(cls, request, subscription): the exception it raises, if any
validate_request_11(request, subscription) ==
    LET action == request.action
        error_message ==
            IF action \notin ACT_TYPES_11
            THEN "The specified action was invalid"
            ELSE IF action \in {ACT_UNSUBSCRIBE, ACT_PAUSE, ACT_RESUME}
                    /\ request.subscription_id = NoId
                 THEN "Action requires a subscription id"
                 ELSE ""
    IN  IF error_message # ""
        THEN StatusMessageException(ST_BAD_MESSAGE, error_message,
                                    request.message_id, <<>>)
        ELSE IF subscription = NoSubscription
                /\ (action \in {ACT_PAUSE, ACT_RESUME}
                    \/ (action = ACT_STATUS /\ request.subscription_id # NoId))
             THEN StatusMessageException(ST_NOT_FOUND, "", request.message_id,
                                         SD_ITEM :> request.subscription_id)
             ELSE NoError

\* handle_message(cls, service, request) from validate_request on, given
\* the subscription that the lookup returned
handle_message_11_with(st, request, subscription) ==
    LET lookup == IF request.subscription_id # NoId
                  THEN <<"get_subscription">> ELSE <<>>
        invalid == validate_request_11(request, subscription)
        missing == retrieve_collection(request.collection_name, request.message_id)
        collection == get_collection(request.collection_name)
        result == ACTIONS_table(request, st, collection, subscription, 11)
        polling_services == get_polling_services(collection)
        response ==
            [kind |-> "ManageCollectionSubscriptionResponse",
             in_response_to |-> request.message_id,
             collection_name |-> collection.name,
             subscription_instances |->
                 [i \in 1..Len(result.results) |->
                     subscription_to_subscription_instance(result.results[i],
                         polling_services, 11, result.results[i].params)]]
    IN  IF invalid.kind # "None"
        THEN Outcome(st, invalid, lookup)
        ELSE IF missing.kind # "None"
        THEN Outcome(st, missing, lookup \o <<"get_collection">>)
        ELSE IF collection_mismatch(subscription, collection)
        THEN Outcome(st,
                 StatusMessageException(ST_NOT_FOUND, "", request.message_id,
                                        SD_ITEM :> request.collection_name),
                 lookup \o <<"get_collection">>)
        ELSE IF result.raised.kind # "None"
        THEN Outcome(result.store, result.raised,
                     lookup \o <<"get_collection">> \o result.calls)
        ELSE Outcome(result.store, response,
                     lookup \o <<"get_collection">> \o result.calls
                            \o <<"get_polling_services">>)

\* handle_message(cls, service, request)
handle_message_11(st, request) ==
    handle_message_11_with(st, request,
        IF request.subscription_id # NoId
        THEN get_subscription(st, request.subscription_id)
        ELSE NoSubscription)

(***************************************************************************)
(* SubscriptionRequest10Handler                                            *)
(***************************************************************************)
\* validate_request that takes the version-11 actions for the legal ones
validate_request_10_with_actions_11(request) ==
    LET action == request.action
        error_message ==
            IF action \notin ACT_TYPES_11
            THEN "The specified action was invalid"
            ELSE IF action = ACT_UNSUBSCRIBE /\ request.subscription_id = NoId
                 THEN "Action requires a subscription id"
                 ELSE ""
    IN  IF error_message # ""
        THEN StatusMessageException(ST_BAD_MESSAGE, error_message,
                                    request.message_id, <<>>)
        ELSE NoError

\* validate_request without the test for the subscription id of UNSUBSCRIBE
validate_request_10_without_id_check(request) ==
    IF request.action \notin ACT_TYPES_10
    THEN StatusMessageException(ST_BAD_MESSAGE, "The specified action was invalid",
                                request.message_id, <<>>)
    ELSE NoError

\* validate_request(cls, request): the exception it raises, if any
validate_request_10(request) ==
    LET action == request.action
        error_message ==
            IF action \notin ACT_TYPES_10
            THEN "The specified action was invalid"
            ELSE IF action = ACT_UNSUBSCRIBE /\ request.subscription_id = NoId
                 THEN "Action requires a subscription id"
                 ELSE ""
    IN  IF error_message # ""
        THEN StatusMessageException(ST_BAD_MESSAGE, error_message,
                                    request.message_id, <<>>)
        ELSE NoError

\* handle_message(cls, service, request)
handle_message_10(st, request) ==
    LET invalid == validate_request_10(request)
        missing == retrieve_collection(request.feed_name, request.message_id)
        collection == get_collection(request.feed_name)
        lookup == IF request.subscription_id # NoId
                  THEN <<"get_subscription">> ELSE <<>>
        subscription == IF request.subscription_id # NoId
                        THEN get_subscription(st, request.subscription_id)
                        ELSE NoSubscription
        result == ACTIONS_table(request, st, collection, subscription, 10)
        polling_services == get_polling_services(collection)
        response ==
            [kind |-> "ManageFeedSubscriptionResponse",
             in_response_to |-> request.message_id,
             feed_name |-> collection.name,
             subscription_instances |->
                 [i \in 1..Len(result.results) |->
                     subscription_to_subscription_instance(result.results[i],
                         polling_services, 10, <<>>)]]
    IN  IF invalid.kind # "None"
        THEN Outcome(st, invalid, <<>>)
        ELSE IF missing.kind # "None"
        THEN Outcome(st, missing, <<"get_collection">>)
        ELSE IF collection_mismatch(subscription, collection)
        THEN Outcome(st,
                 StatusMessageException(ST_NOT_FOUND, "", request.message_id,
                                        SD_ITEM :> request.feed_name),
                 <<"get_collection">> \o lookup)
        ELSE IF result.raised.kind # "None"
        THEN Outcome(result.store, result.raised,
                     <<"get_collection">> \o lookup \o result.calls)
        ELSE Outcome(result.store, response,
                     <<"get_collection">> \o lookup \o result.calls
                            \o <<"get_polling_services">>)

(***************************************************************************)
(* Requests                                                                *)
(***************************************************************************)
MessageIds == {"m1", "m2"}

\* The subscription ids a request may carry: none, the ids the store can
\* have assigned, and one it never assigns.
RequestIds == {NoId, INVALID_ID} \cup {IdPool[i] : i \in 1..MaxSubs}

\* The actions a request may carry: the five of the protocol and an unknown one.
RequestActions == ACT_TYPES_11 \cup {"INVALID"}

\* request.subscription_parameters of a version-11 SUBSCRIBE
SubscriptionParameters ==
    { [response_type |-> RT_FULL, content_bindings |-> <<>>],
      [response_type |-> RT_COUNT_ONLY,
       content_bindings |-> <<ContentBinding("B", <<>>), ContentBinding("C", <<>>)>>],
      [response_type |-> RT_COUNT_ONLY,
       content_bindings |-> <<ContentBinding("C", <<>>)>>],
      [response_type |-> RT_FULL,
       content_bindings |-> <<ContentBinding("B", <<>>), ContentBinding("A", <<>>)>>] }

\* subscription_parameters of a request that is no SUBSCRIBE
NoSubscriptionParameters == [response_type |-> RT_FULL, content_bindings |-> <<>>]

\* tm11.ManageCollectionSubscriptionRequest; a SUBSCRIBE carries the
\* subscription parameters and no subscription id, every other action
\* carries no parameters.  The message id varies over the requests without
\* a subscription id; a request that refers to a subscription carries "m1".
ManageCollectionSubscriptionRequest ==
    { [type |-> "tm11", message_id |-> m, action |-> ACT_SUBSCRIBE,
       collection_name |-> c, subscription_id |-> NoId,
       subscription_parameters |-> p] :
        m \in MessageIds, c \in CollectionNames, p \in SubscriptionParameters }
    \cup
    { [type |-> "tm11", message_id |-> m, action |-> a, collection_name |-> c,
       subscription_id |-> NoId, subscription_parameters |-> NoSubscriptionParameters] :
        m \in MessageIds, a \in RequestActions \ {ACT_SUBSCRIBE},
        c \in CollectionNames }
    \cup
    { [type |-> "tm11", message_id |-> "m1", action |-> a, collection_name |-> c,
       subscription_id |-> i, subscription_parameters |-> NoSubscriptionParameters] :
        a \in RequestActions \ {ACT_SUBSCRIBE},
        c \in CollectionNames, i \in RequestIds \ {NoId} }

\* tm10.ManageFeedSubscriptionRequest; a SUBSCRIBE carries no subscription
\* id; the message id varies as for version 11
ManageFeedSubscriptionRequest ==
    { [type |-> "tm10", message_id |-> m, action |-> ACT_SUBSCRIBE,
       feed_name |-> c, subscription_id |-> NoId] :
        m \in MessageIds, c \in CollectionNames }
    \cup
    { [type |-> "tm10", message_id |-> m, action |-> a, feed_name |-> c,
       subscription_id |-> NoId] :
        m \in MessageIds, a \in RequestActions \ {ACT_SUBSCRIBE},
        c \in CollectionNames }
    \cup
    { [type |-> "tm10", message_id |-> "m1", action |-> a, feed_name |-> c,
       subscription_id |-> i] :
        a \in RequestActions \ {ACT_SUBSCRIBE},
        c \in CollectionNames, i \in RequestIds \ {NoId} }

NoRequest == [type |-> "none"]

NoResponse == [kind |-> "none"]

(***************************************************************************)
(* The state machine                                                       *)
(***************************************************************************)
Init ==
    /\ store = <<>>
    /\ req = NoRequest
    /\ resp = NoResponse
    /\ prev = <<>>
    /\ calls = <<>>
    /\ issued = <<>>
    /\ workers = <<>>
    /\ commits = <<>>

\* What the client keeps of a successful SUBSCRIBE: the protocol version,
\* the collection it named and the one subscription instance of the response.
Issue(version, collection_name, request, outcome) ==
    IF request.action = ACT_SUBSCRIBE /\ outcome.resp.kind # "StatusMessageException"
    THEN Append(issued, [version |-> version, collection_name |-> collection_name,
                         instance |-> outcome.resp.subscription_instances[1]])
    ELSE issued

\* One request handled from start to end; the outcome stays in resp until
\* the caller has taken it.
Handle(version, collection_name, request, outcome) ==
    /\ Len(outcome.store) <= MaxSubs
    /\ store' = outcome.store
    /\ req' = request
    /\ resp' = outcome.resp
    /\ prev' = store
    /\ calls' = outcome.calls
    /\ issued' = Issue(version, collection_name, request, outcome)
    /\ UNCHANGED <<workers, commits>>

\* SubscriptionRequestHandler.handle_message, a version-11 message
SubscriptionRequest11Handler ==
    /\ req = NoRequest
    /\ \E request \in ManageCollectionSubscriptionRequest :
        Handle(11, request.collection_name, request,
               handle_message_11(store, request))

\* SubscriptionRequestHandler.handle_message, a version-10 message
SubscriptionRequest10Handler ==
    /\ req = NoRequest
    /\ \E request \in ManageFeedSubscriptionRequest :
        Handle(10, request.feed_name, request, handle_message_10(store, request))

\* The caller takes the response or the exception; the service is idle again.
Return ==
    /\ req # NoRequest
    /\ req' = NoRequest
    /\ resp' = NoResponse
    /\ prev' = <<>>
    /\ calls' = <<>>
    /\ UNCHANGED <<store, issued, workers, commits>>

Next == SubscriptionRequest11Handler \/ SubscriptionRequest10Handler \/ Return

Spec == Init /\ [][Next]_vars

(***************************************************************************)
(* Two version-11 requests on one subscription, handled concurrently:     *)
(* service.get_subscription and the rest of handle_message, with its       *)
(* conditional service.update_subscription, are separate steps.            *)
(***************************************************************************)
Workers == {"w1", "w2"}

\* The subscription both requests refer to, as a version-11 SUBSCRIBE to
\* collection X created it and earlier requests left it.
ConcurrentStores ==
    LET created == create_subscription(<<>>,
                       SubscriptionEntity(get_collection("X").id, NoId, ACTIVE,
                           <<PollRequestParametersEntity(RT_FULL, <<>>)>>))
    IN  { update_subscription(created.store, created.result, status).store :
              status \in {ACTIVE, PAUSED, UNSUBSCRIBED} }

\* A PAUSE, RESUME or UNSUBSCRIBE on that subscription.
ConcurrentRequests(message_id) ==
    { [type |-> "tm11", message_id |-> message_id, action |-> a,
       collection_name |-> c, subscription_id |-> IdPool[1],
       subscription_parameters |-> NoSubscriptionParameters] :
        a \in {ACT_PAUSE, ACT_RESUME, ACT_UNSUBSCRIBE}, c \in {"X", "Y"} }

InitConcurrent ==
    /\ store \in ConcurrentStores
    /\ prev = store
    /\ req = NoRequest
    /\ resp = NoResponse
    /\ calls = <<>>
    /\ issued = <<>>
    /\ commits = <<>>
    /\ \E r1 \in ConcurrentRequests("m1"), r2 \in ConcurrentRequests("m2") :
          workers = [w \in Workers |->
                        [pc |-> "start", request |-> IF w = "w1" THEN r1 ELSE r2,
                         subscription |-> NoSubscription, resp |-> NoResponse]]

\* handle_message, lines 142-145: the lookup of the subscription
LookupSubscription(w) ==
    /\ workers[w].pc = "start"
    /\ workers' = [workers EXCEPT
                      ![w].pc = "looked",
                      ![w].subscription =
                          get_subscription(store, workers[w].request.subscription_id)]
    /\ UNCHANGED <<store, req, resp, prev, calls, issued, commits>>

\* handle_message, lines 147-184: validation, collection, action, response
HandleAfterLookup(w) ==
    /\ workers[w].pc = "looked"
    /\ LET outcome == handle_message_11_with(store, workers[w].request,
                                             workers[w].subscription)
       IN  /\ store' = outcome.store
           /\ workers' = [workers EXCEPT ![w].pc = "done", ![w].resp = outcome.resp]
           /\ commits' = IF \E i \in 1..Len(outcome.calls) :
                                outcome.calls[i] = "update_subscription"
                         THEN Append(commits, w)
                         ELSE commits
    /\ UNCHANGED <<req, resp, prev, calls, issued>>

NextConcurrent ==
    \E w \in Workers : LookupSubscription(w) \/ HandleAfterLookup(w)

SpecConcurrent == InitConcurrent /\ [][NextConcurrent]_vars

(***************************************************************************)
(* Properties.  In a state with req # NoRequest, prev is the store before  *)
(* the request, store the store after it, resp its outcome and calls the   *)
(* service calls made for it.                                              *)
(***************************************************************************)
Handled11 == req.type = "tm11"

Handled10 == req.type = "tm10"

Handled == Handled11 \/ Handled10

\* The collection (feed) name the handled request carries.
NamedCollection == IF Handled11 THEN req.collection_name ELSE req.feed_name

\* The subscription the handled request refers to, as it was stored before.
Target == get_subscription(prev, req.subscription_id)

Known == req.subscription_id # NoId /\ Target # NoSubscription

Unknown == req.subscription_id # NoId /\ Target = NoSubscription

\* The request names the collection the subscription was created under.
OwnCollection == get_collection(NamedCollection).id = Target.collection_id

IsResponse ==
    resp.kind \in {"ManageCollectionSubscriptionResponse", "ManageFeedSubscriptionResponse"}

IsSignal(status_type) ==
    resp.kind = "StatusMessageException" /\ resp.status_type = status_type

HasDetail(key, value) ==
    DOMAIN resp.status_details = {key} /\ resp.status_details[key] = value

\* The response holds exactly one instance, and it carries this id.
OneInstance(subscription_id) ==
    /\ IsResponse
    /\ Len(resp.subscription_instances) = 1
    /\ resp.subscription_instances[1].subscription_id = subscription_id

\* The instance carries a status, and it is this one.
InstanceStatus(instance, status) ==
    "status" \in DOMAIN instance /\ instance.status = status

NoWrite ==
    /\ store = prev
    /\ \A i \in 1..Len(calls) :
          calls[i] \notin {"update_subscription", "create_subscription"}

\* C1: UNSUBSCRIBED is terminal: no request handled by either handler
\* changes the persisted status of a subscription that is UNSUBSCRIBED to
\* ACTIVE or PAUSED.
C1_UnsubscribedIsTerminal ==
    Handled =>
        \A i \in 1..Len(prev) :
            prev[i].status = UNSUBSCRIBED =>
                /\ i <= Len(store)
                /\ store[i].status \notin {ACTIVE, PAUSED}

\* C2, as stated: on both handlers an UNSUBSCRIBE that names an existing
\* collection and a subscription id unknown to the store succeeds with
\* exactly one instance carrying that id and the status UNSUBSCRIBED, and
\* the store has no new and no modified record.
C2_UnknownUnsubscribeHasStatus ==
    (Handled /\ req.action = ACT_UNSUBSCRIBE /\ Unknown
       /\ get_collection(NamedCollection) # NoCollection) =>
        /\ OneInstance(req.subscription_id)
        /\ InstanceStatus(resp.subscription_instances[1], UNSUBSCRIBED)
        /\ NoWrite
        /\ get_subscription(store, req.subscription_id) = NoSubscription

\* C2, amended: on both handlers an UNSUBSCRIBE that names an existing
\* collection and a subscription id unknown to the store succeeds with
\* exactly one instance carrying that id; the version-11 instance carries
\* the status UNSUBSCRIBED, the version-10 instance carries no status; the
\* store has no new and no modified record, none with that id.
C2_UnknownUnsubscribe ==
    (Handled /\ req.action = ACT_UNSUBSCRIBE /\ Unknown
       /\ get_collection(NamedCollection) # NoCollection) =>
        /\ OneInstance(req.subscription_id)
        /\ Handled11 => InstanceStatus(resp.subscription_instances[1], UNSUBSCRIBED)
        /\ Handled10 => "status" \notin DOMAIN resp.subscription_instances[1]
        /\ NoWrite
        /\ get_subscription(store, req.subscription_id) = NoSubscription

C2_Witness ==
    /\ Handled10 /\ req.action = ACT_UNSUBSCRIBE /\ Unknown
    /\ Len(prev) = 2
    /\ OneInstance(INVALID_ID)

\* C3: a version-11 PAUSE on a subscription whose persisted status is
\* PAUSED issues no store write, and, the request naming the collection of
\* the subscription, returns that subscription unchanged: one instance,
\* its id, status PAUSED.
C3_IdempotentPause ==
    (Handled11 /\ req.action = ACT_PAUSE /\ Known /\ Target.status = PAUSED) =>
        /\ NoWrite
        /\ OwnCollection =>
              /\ OneInstance(req.subscription_id)
              /\ InstanceStatus(resp.subscription_instances[1], PAUSED)
              /\ get_subscription(store, req.subscription_id) = Target

C3_Witness ==
    /\ Handled11 /\ req.action = ACT_PAUSE /\ Known /\ Target.status = PAUSED
    /\ OneInstance(req.subscription_id)

\* C4: a version-11 RESUME on a subscription whose persisted status is not
\* PAUSED (ACTIVE or UNSUBSCRIBED) issues no store write, and, the request
\* naming the collection of the subscription, returns the subscription
\* with its status unchanged.
C4_IdempotentResume ==
    (Handled11 /\ req.action = ACT_RESUME /\ Known /\ Target.status # PAUSED) =>
        /\ NoWrite
        /\ OwnCollection =>
              /\ OneInstance(req.subscription_id)
              /\ InstanceStatus(resp.subscription_instances[1], Target.status)
              /\ get_subscription(store, req.subscription_id) = Target

C4_Witness ==
    /\ Handled11 /\ req.action = ACT_RESUME /\ Known
    /\ Target.status = UNSUBSCRIBED
    /\ OneInstance(req.subscription_id)

\* The persisted status the claim C5 gives for the handled request.
C5_Expected ==
    CASE req.action = ACT_PAUSE -> PAUSED
      [] req.action = ACT_RESUME -> ACTIVE
      [] req.action = ACT_UNSUBSCRIBE -> UNSUBSCRIBED

\* The request is one of the transitions of C5 on a persisted subscription
\* referenced under its own collection.
C5_Transition ==
    /\ Handled /\ Known /\ OwnCollection
    /\ \/ Handled11 /\ req.action = ACT_PAUSE /\ Target.status = ACTIVE
       \/ Handled11 /\ req.action = ACT_RESUME /\ Target.status = PAUSED
       \/ Handled /\ req.action = ACT_UNSUBSCRIBE

\* C5: PAUSE on ACTIVE leaves the persisted status PAUSED, RESUME on
\* PAUSED leaves it ACTIVE, UNSUBSCRIBE on an existing subscription leaves
\* it UNSUBSCRIBED; the response holds exactly one instance with the same
\* id and (version 11) the status it reports is the persisted status.
C5_TransitionsVisible ==
    C5_Transition =>
        /\ get_subscription(store, req.subscription_id).status = C5_Expected
        /\ OneInstance(req.subscription_id)
        /\ Handled11 =>
              InstanceStatus(resp.subscription_instances[1],
                             get_subscription(store, req.subscription_id).status)

C5_Witness ==
    /\ C5_Transition /\ Handled11 /\ req.action = ACT_PAUSE
    /\ get_subscription(store, req.subscription_id).status = PAUSED
    /\ Len(store) = 2

\* The ids of the subscriptions of a store.
StoredIds(st) == {st[i].subscription_id : i \in 1..Len(st)}

\* C6: each successful SUBSCRIBE, of either version, adds exactly one
\* record to the store, with an id distinct from every existing id, status
\* ACTIVE and the collection_id of the resolved collection, leaves every
\* other record unchanged, and returns exactly one instance carrying the
\* new id.
C6_SubscribeAddsOne ==
    (Handled /\ req.action = ACT_SUBSCRIBE /\ IsResponse) =>
        /\ Len(store) = Len(prev) + 1
        /\ SubSeq(store, 1, Len(prev)) = prev
        /\ store[Len(store)].subscription_id \notin StoredIds(prev) \cup {NoId}
        /\ store[Len(store)].status = ACTIVE
        /\ store[Len(store)].collection_id = get_collection(NamedCollection).id
        /\ get_collection(NamedCollection) # NoCollection
        /\ OneInstance(store[Len(store)].subscription_id)

C6_Witness ==
    /\ Handled10 /\ req.action = ACT_SUBSCRIBE /\ IsResponse
    /\ Len(prev) = 1 /\ Len(store) = 2
    /\ store[2].collection_id # store[1].collection_id

\* The results of the version-11 SUBSCRIBE requests that created the
\* subscription a STATUS request refers to, under the collection it names.
C7_Subscribed ==
    { k \in 1..Len(issued) :
        /\ issued[k].version = 11
        /\ issued[k].instance.subscription_id = req.subscription_id
        /\ issued[k].collection_name = req.collection_name }

\* C7: after a successful version-11 SUBSCRIBE, a STATUS request naming
\* the same collection and the returned subscription id returns exactly
\* one subscription whose id, collection and negotiated poll parameters
\* (response type and content bindings) are those of the SUBSCRIBE result,
\* whatever PAUSE, RESUME and UNSUBSCRIBE requests were handled in between.
C7_RoundTrip ==
    (Handled11 /\ req.action = ACT_STATUS /\ req.subscription_id # NoId) =>
        \A k \in C7_Subscribed :
            /\ OneInstance(issued[k].instance.subscription_id)
            /\ resp.collection_name = issued[k].collection_name
            /\ "subscription_parameters" \in DOMAIN resp.subscription_instances[1]
            /\ resp.subscription_instances[1].subscription_parameters
                  = issued[k].instance.subscription_parameters

C7_Witness ==
    /\ Handled11 /\ req.action = ACT_STATUS /\ req.subscription_id # NoId
    /\ C7_Subscribed # {}
    /\ Len(store) = 2
    /\ IsResponse
    /\ resp.subscription_instances[1].status = UNSUBSCRIBED
    /\ resp.subscription_instances[1].subscription_parameters.content_bindings
          = <<ContentBinding("B", <<>>)>>

\* The format identifiers of a list of wire content bindings.
BindingIds(bindings) == {bindings[i].binding_id : i \in 1..Len(bindings)}

\* The format identifiers a collection supports.
SupportedIds(collection) ==
    {collection.supported_content[i].binding : i \in 1..Len(collection.supported_content)}

\* The version-11 SUBSCRIBE handled last names an existing collection.
C8_Subscribe ==
    /\ Handled11 /\ req.action = ACT_SUBSCRIBE
    /\ get_collection(NamedCollection) # NoCollection

\* The formats the request asks for.
C8_Requested == BindingIds(req.subscription_parameters.content_bindings)

\* The accepted list of the response.
C8_Accepted == resp.subscription_instances[1].subscription_parameters.content_bindings

\* C8: on a version-11 SUBSCRIBE, with no requested formats the accepted
\* list is empty and the subscription is created; with a non-empty
\* requested list the accepted list is exactly the intersection of the
\* requested formats with the collection's supported formats; with a
\* non-empty requested list and an empty intersection the request fails
\* with UNSUPPORTED_CONTENT_BINDING whose detail supported_content is the
\* collection's full supported list, and no subscription is created.
C8_Negotiation ==
    C8_Subscribe =>
        LET supported == SupportedIds(get_collection(NamedCollection))
        IN  /\ C8_Requested = {} =>
                  /\ IsResponse
                  /\ C8_Accepted = <<>>
                  /\ Len(store) = Len(prev) + 1
            /\ C8_Requested \cap supported # {} =>
                  /\ IsResponse
                  /\ BindingIds(C8_Accepted) = C8_Requested \cap supported
                  /\ Len(C8_Accepted) = Cardinality(C8_Requested \cap supported)
                  /\ store[Len(store)].params[1].content_bindings
                        = parse_content_bindings(C8_Accepted)
            /\ (C8_Requested # {} /\ C8_Requested \cap supported = {}) =>
                  /\ IsSignal(ST_UNSUPPORTED_CONTENT_BINDING)
                  /\ HasDetail(SD_SUPPORTED_CONTENT,
                               get_supported_content(get_collection(NamedCollection)))
                  /\ Len(resp.status_details[SD_SUPPORTED_CONTENT]) = Cardinality(supported)
                  /\ NoWrite

C8_Witness ==
    /\ C8_Subscribe /\ IsResponse
    /\ NamedCollection = "X"
    /\ C8_Requested = {"B", "C"}
    /\ C8_Accepted = <<ContentBinding("B", <<>>)>>

\* The request refers to an existing subscription and names another
\* collection than the one the subscription was created under.
C9_Mismatch ==
    /\ Handled /\ Known
    /\ req.action \in {ACT_PAUSE, ACT_RESUME, ACT_UNSUBSCRIBE, ACT_STATUS}
    /\ get_collection(NamedCollection).id # Target.collection_id

\* C9, as stated: a PAUSE, RESUME, UNSUBSCRIBE or STATUS request that
\* refers to an existing subscription created under collection X and
\* names a different collection Y fails with NOT_FOUND whose detail is
\* {item: Y}, on both handlers, whatever the status of the subscription,
\* and the persisted record is unchanged.
C9_MismatchNotFoundOnBoth ==
    C9_Mismatch =>
        /\ IsSignal(ST_NOT_FOUND)
        /\ HasDetail(SD_ITEM, NamedCollection)
        /\ NoWrite

\* C9, amended: such a request fails with NOT_FOUND whose detail is
\* {item: Y} when its action is legal for the handler (all four on version
\* 11, UNSUBSCRIBE and STATUS on version 10); a PAUSE or RESUME on the
\* version-10 handler fails with BAD_MESSAGE instead; in every case the
\* persisted record is unchanged.
C9_MismatchNotFound ==
    C9_Mismatch =>
        /\ NoWrite
        /\ (Handled11 \/ req.action \in ACT_TYPES_10) =>
              /\ IsSignal(ST_NOT_FOUND)
              /\ HasDetail(SD_ITEM, NamedCollection)
        /\ (Handled10 /\ req.action \notin ACT_TYPES_10) =>
              IsSignal(ST_BAD_MESSAGE)

C9_Witness ==
    /\ C9_Mismatch /\ Handled10 /\ req.action = ACT_UNSUBSCRIBE
    /\ NamedCollection = "Y"
    /\ Target.status = PAUSED
    /\ IsSignal(ST_NOT_FOUND)

\* C10: on the version-11 handler a PAUSE, RESUME or STATUS with a
\* subscription id unknown to the store fails with NOT_FOUND whose detail
\* is {item: subscription_id}; the check is made before the collection is
\* resolved, so the detail names the subscription id also when the named
\* collection is unknown; the store is unchanged.
C10_UnknownSubscriptionNotFound ==
    (Handled11 /\ req.action \in {ACT_PAUSE, ACT_RESUME, ACT_STATUS} /\ Unknown) =>
        /\ IsSignal(ST_NOT_FOUND)
        /\ HasDetail(SD_ITEM, req.subscription_id)
        /\ calls = <<"get_subscription">>
        /\ NoWrite

C10_Witness ==
    /\ Handled11 /\ req.action = ACT_STATUS /\ Unknown
    /\ get_collection(NamedCollection) = NoCollection
    /\ Len(store) = 1
    /\ IsSignal(ST_NOT_FOUND)

\* The version-11 request with the field values of the version-10 request
\* handled last.
Twin11 ==
    [type |-> "tm11", message_id |-> req.message_id, action |-> req.action,
     collection_name |-> req.feed_name, subscription_id |-> req.subscription_id,
     subscription_parameters |-> NoSubscriptionParameters]

\* C11: a PAUSE or RESUME sent to the version-10 handler fails with
\* BAD_MESSAGE and changes nothing in the store, for every subscription id
\* and feed name, also when the version-11 handler accepts a request with
\* the same field values and performs the transition.
C11_Version10Legality ==
    (Handled10 /\ req.action \in {ACT_PAUSE, ACT_RESUME}) =>
        /\ IsSignal(ST_BAD_MESSAGE)
        /\ NoWrite
        /\ calls = <<>>

C11_Witness ==
    /\ Handled10 /\ req.action = ACT_PAUSE /\ Known /\ OwnCollection
    /\ Target.status = ACTIVE
    /\ IsSignal(ST_BAD_MESSAGE)
    /\ handle_message_11(prev, Twin11).resp.kind = "ManageCollectionSubscriptionResponse"
    /\ get_subscription(handle_message_11(prev, Twin11).store,
                        req.subscription_id).status = PAUSED

RequiresId == "Action requires a subscription id"

\* C12: without a subscription id, UNSUBSCRIBE, PAUSE and RESUME fail with
\* BAD_MESSAGE on version 11; on version 10 UNSUBSCRIBE alone is rejected
\* for the missing id, with BAD_MESSAGE and before any lookup (also when
\* the named feed is unknown); SUBSCRIBE and STATUS without a subscription
\* id are not rejected for the missing id on either version.
C12_MissingSubscriptionId ==
    (Handled /\ req.subscription_id = NoId) =>
        /\ (Handled11 /\ req.action \in {ACT_UNSUBSCRIBE, ACT_PAUSE, ACT_RESUME}) =>
              /\ IsSignal(ST_BAD_MESSAGE)
              /\ resp.message = RequiresId
              /\ NoWrite
        /\ (Handled10 /\ req.action = ACT_UNSUBSCRIBE) =>
              /\ IsSignal(ST_BAD_MESSAGE)
              /\ resp.message = RequiresId
              /\ calls = <<>>
              /\ NoWrite
        /\ (Handled10 /\ req.action \in {ACT_PAUSE, ACT_RESUME}) =>
              /\ IsSignal(ST_BAD_MESSAGE)
              /\ resp.message # RequiresId
        /\ req.action \in {ACT_SUBSCRIBE, ACT_STATUS} =>
              /\ ~IsSignal(ST_BAD_MESSAGE)
              /\ get_collection(NamedCollection) = NoCollection =>
                    IsSignal(ST_NOT_FOUND) /\ HasDetail(SD_ITEM, NamedCollection)
              /\ (get_collection(NamedCollection) # NoCollection
                    /\ req.action = ACT_STATUS) => IsResponse

C12_Witness ==
    /\ Handled10 /\ req.subscription_id = NoId /\ req.action = ACT_UNSUBSCRIBE
    /\ get_collection(NamedCollection) = NoCollection
    /\ IsSignal(ST_BAD_MESSAGE)
    /\ Len(store) = 1

\* C13: BAD_MESSAGE is raised before any store access: for every request,
\* on either handler, that ends in BAD_MESSAGE no service operation
\* (get_subscription, get_collection, get_subscriptions,
\* create_subscription, update_subscription) was invoked for it.
C13_BadMessageBeforeStoreAccess ==
    (Handled /\ IsSignal(ST_BAD_MESSAGE)) => calls = <<>>

\* C14: a STATUS request without a subscription id that names an existing
\* collection succeeds on both handlers, leaves the store unchanged and
\* returns one instance per subscription known to the service, in the
\* order of the store; with no subscriptions the response is a successful
\* one with zero instances.
C14_StatusAll ==
    (Handled /\ req.action = ACT_STATUS /\ req.subscription_id = NoId
       /\ get_collection(NamedCollection) # NoCollection) =>
        /\ IsResponse
        /\ NoWrite
        /\ Len(resp.subscription_instances) = Len(prev)
        /\ \A i \in 1..Len(prev) :
              /\ resp.subscription_instances[i].subscription_id = prev[i].subscription_id
              /\ Handled11 =>
                    InstanceStatus(resp.subscription_instances[i], prev[i].status)

C14_Witness ==
    /\ Handled10 /\ req.action = ACT_STATUS /\ req.subscription_id = NoId
    /\ IsResponse
    /\ Len(resp.subscription_instances) = 2
    /\ prev[1].status = UNSUBSCRIBED
    /\ prev[1].collection_id # get_collection(NamedCollection).id

\* A version-10 STATUS whose subscription is absent and whose feed exists.
C16_StatusAbsent ==
    /\ Handled10 /\ req.action = ACT_STATUS
    /\ req.subscription_id = NoId \/ Unknown
    /\ get_collection(NamedCollection) # NoCollection

\* The subscription ids of the instances of a response, in order.
InstanceIds(response) ==
    [i \in 1..Len(response.subscription_instances) |->
        response.subscription_instances[i].subscription_id]

\* The version-10 response lists every subscription of the store.
C16_FullList ==
    /\ IsResponse
    /\ InstanceIds(resp) = [i \in 1..Len(prev) |-> prev[i].subscription_id]
    /\ store = prev

\* The version-11 handler, given the same field values and the same store,
\* ends the same way: a response listing the same subscriptions.
C16_SameAs11 ==
    LET twin == handle_message_11(prev, Twin11)
    IN  /\ twin.resp.kind = "ManageCollectionSubscriptionResponse"
        /\ InstanceIds(twin.resp) = InstanceIds(resp)
        /\ twin.store = store

\* C16, as stated: for a STATUS whose subscription is absent (no id, or an
\* id unknown to the store) and whose collection exists, the version-10
\* handler returns the full subscription list, and the version-11 handler
\* ends the same way for the same field values.
C16_StatusAbsentSameAs11 ==
    C16_StatusAbsent => (C16_FullList /\ C16_SameAs11)

\* C16, amended: the version-10 handler returns the full subscription list
\* in both cases; the version-11 handler ends the same way when no id is
\* supplied, and fails with NOT_FOUND {item: subscription_id} when an
\* unknown id is supplied.
C16_StatusAbsentOn10 ==
    C16_StatusAbsent =>
        /\ C16_FullList
        /\ req.subscription_id = NoId => C16_SameAs11
        /\ req.subscription_id # NoId =>
              LET twin == handle_message_11(prev, Twin11)
              IN  /\ twin.resp.kind = "StatusMessageException"
                  /\ twin.resp.status_type = ST_NOT_FOUND
                  /\ twin.resp.status_details = (SD_ITEM :> req.subscription_id)
                  /\ twin.store = prev

C16_Witness ==
    /\ C16_StatusAbsent /\ Unknown
    /\ Len(prev) = 2
    /\ C16_FullList

\* The same request handled once more, right after the first handling.
Replay ==
    IF Handled11 THEN handle_message_11(store, req) ELSE handle_message_10(store, req)

\* A PAUSE, RESUME or UNSUBSCRIBE on an existing subscription.
C17_Transition ==
    /\ Handled /\ Known
    /\ req.action \in {ACT_PAUSE, ACT_RESUME, ACT_UNSUBSCRIBE}

\* C17: handling the same PAUSE, RESUME or UNSUBSCRIBE twice in immediate
\* succession on an existing subscription leaves the persisted status as
\* it was after the first handling, and the second response reports the
\* same subscription id and status as the first.
C17_ReplaySafe ==
    C17_Transition =>
        LET replay == Replay
        IN  /\ get_subscription(replay.store, req.subscription_id).status
                  = get_subscription(store, req.subscription_id).status
            /\ Len(replay.store) = Len(store)
            /\ IsResponse =>
                  /\ replay.resp.kind = resp.kind
                  /\ Len(replay.resp.subscription_instances) = 1
                  /\ InstanceIds(replay.resp) = InstanceIds(resp)
                  /\ Handled11 =>
                        InstanceStatus(replay.resp.subscription_instances[1],
                                       resp.subscription_instances[1].status)

C17_Witness ==
    /\ C17_Transition /\ Handled11 /\ IsResponse
    /\ req.action = ACT_PAUSE /\ Target.status = ACTIVE
    /\ "update_subscription" \in {calls[i] : i \in 1..Len(calls)}
    /\ "update_subscription" \notin {Replay.calls[i] : i \in 1..Len(Replay.calls)}

\* C18: a request that ends in a Status Signal (BAD_MESSAGE, NOT_FOUND or
\* UNSUPPORTED_CONTENT_BINDING) leaves the persisted subscriptions as they
\* were; every request has exactly one outcome, a response or one signal,
\* and it is correlated to the message id of the request.
C18_FailureLeavesStore ==
    Handled =>
        /\ IsResponse \/ resp.kind = "StatusMessageException"
        /\ ~(IsResponse /\ resp.kind = "StatusMessageException")
        /\ resp.in_response_to = req.message_id
        /\ resp.kind = "StatusMessageException" =>
              /\ resp.status_type \in
                    {ST_BAD_MESSAGE, ST_NOT_FOUND, ST_UNSUPPORTED_CONTENT_BINDING}
              /\ NoWrite

C18_Witness ==
    /\ Handled11 /\ IsSignal(ST_UNSUPPORTED_CONTENT_BINDING)
    /\ req.message_id = "m2"
    /\ Len(store) = 1

\* C19: subscriptions are never deleted, every persisted status is ACTIVE,
\* PAUSED or UNSUBSCRIBED, the collection_id and the poll parameters of a
\* persisted subscription are those it was created with, and PAUSE, RESUME
\* and UNSUBSCRIBE change at most the status of the one subscription the
\* request refers to.
C19_StoreInvariant ==
    /\ Len(issued) = Len(store)
    /\ \A i \in 1..Len(store) :
          /\ store[i].status \in {ACTIVE, PAUSED, UNSUBSCRIBED}
          /\ store[i].subscription_id = issued[i].instance.subscription_id
          /\ store[i].collection_id = get_collection(issued[i].collection_name).id
          /\ Len(store[i].params) = 1
          /\ issued[i].version = 11 =>
                /\ store[i].params[1].response_type
                      = issued[i].instance.subscription_parameters.response_type
                /\ store[i].params[1].content_bindings
                      = parse_content_bindings(
                            issued[i].instance.subscription_parameters.content_bindings)
          /\ issued[i].version = 10 =>
                store[i].params[1] = PollRequestParametersEntity(RT_NONE, <<>>)
    /\ Handled =>
          /\ Len(store) >= Len(prev)
          /\ \A i \in 1..Len(prev) :
                /\ store[i].subscription_id = prev[i].subscription_id
                /\ store[i].collection_id = prev[i].collection_id
                /\ store[i].params = prev[i].params
          /\ req.action \in {ACT_PAUSE, ACT_RESUME, ACT_UNSUBSCRIBE} =>
                /\ Len(store) = Len(prev)
                /\ \A i \in 1..Len(prev) :
                      store[i] # prev[i] =>
                          store[i].subscription_id = req.subscription_id

C19_Witness ==
    /\ Handled /\ req.action = ACT_UNSUBSCRIBE
    /\ Len(store) = 2
    /\ store[1] = prev[1]
    /\ store[2] # prev[2]
    /\ issued[2].version = 11
    /\ store[2].params[1].content_bindings # <<>>

\* Both concurrent requests have been answered.
AllDone == workers # <<>> /\ \A w \in Workers : workers[w].pc = "done"

\* The store after handling one request and then the other, each from
\* start to end.
Serial(first, second) ==
    handle_message_11(handle_message_11(prev, first).store, second).store

\* The status an action writes.
WrittenStatus(action) ==
    CASE action = ACT_PAUSE -> PAUSED
      [] action = ACT_RESUME -> ACTIVE
      [] action = ACT_UNSUBSCRIBE -> UNSUBSCRIBED

\* The worker's request was answered, and the status it had read calls for
\* a write.
WriteDue(w) ==
    /\ workers[w].resp.kind = "ManageCollectionSubscriptionResponse"
    /\ \/ workers[w].request.action = ACT_PAUSE /\ workers[w].subscription.status # PAUSED
       \/ workers[w].request.action = ACT_RESUME /\ workers[w].subscription.status = PAUSED
       \/ workers[w].request.action = ACT_UNSUBSCRIBE

\* C15, as stated: two PAUSE/RESUME/UNSUBSCRIBE requests on one
\* subscription id handled concurrently, the read and the conditional
\* write of each being separate atomic steps, end with the persisted
\* status that one of the two serial orders of the requests ends with.
C15_FinalStatusOfASerialOrder ==
    AllDone =>
        store[1].status \in
            { Serial(workers["w1"].request, workers["w2"].request)[1].status,
              Serial(workers["w2"].request, workers["w1"].request)[1].status }

\* C15, amended: each request decides from the status it read whether it
\* writes, and the persisted status at the end is the one written by the
\* update_subscription that reached the store last (the initial status if
\* neither request writes); nothing but the status changes.
C15_LastCommittedWins ==
    AllDone =>
        /\ \A w \in Workers :
              (\E i \in 1..Len(commits) : commits[i] = w) <=> WriteDue(w)
        /\ commits = <<>> => store = prev
        /\ commits # <<>> =>
              store = <<[prev[1] EXCEPT !.status =
                           WrittenStatus(workers[commits[Len(commits)]].request.action)]>>

C15_Witness ==
    /\ AllDone
    /\ prev[1].status = PAUSED
    /\ workers["w1"].request.action = ACT_RESUME
    /\ workers["w2"].request.action = ACT_UNSUBSCRIBE
    /\ commits = <<"w2", "w1">>
    /\ store[1].status = ACTIVE
    /\ Serial(workers["w1"].request, workers["w2"].request)[1].status = UNSUBSCRIBED
    /\ Serial(workers["w2"].request, workers["w1"].request)[1].status = UNSUBSCRIBED

====
